---- MODULE Spec2Model ----
(***************************************************************************)
(* Signaling relay of the video-call server: the socket event handlers of  *)
(* src/ws/stream.js (rate limiter, validators, room joins, relays) over    *)
(* the room registry of the transport's adapter.                           *)
(*                                                                         *)
(* Strings are tuples of one-character strings, so that length, character  *)
(* classes and prefixes are computed.  A JavaScript value is a record      *)
(* whose field t is its type tag.                                          *)
(***************************************************************************)
EXTENDS Integers, Sequences, FiniteSets, TLC

VARIABLES
    config,        \* the exported configuration object (MAX_ROOM_SIZE)
    connected,     \* ids of the sockets whose handlers are registered
    closed,        \* ids of the sockets that have disconnected
    rooms,         \* socket.adapter.rooms: room name -> set of socket ids
    rateLimitMap,  \* key -> [count, resetTime]
    now,           \* Date.now()
    windowLog,     \* history: key -> [opened, seen] of the key's current window
    aliases,       \* history: <<socket, participant id>> -> [held, room]
    journal,       \* history: <<socket, event>> -> time -> [admitted, effective]
    last,          \* history: the inbound event handled by the last step
    sent           \* history: the messages emitted by the last step

vars == <<config, connected, closed, rooms, rateLimitMap, now, windowLog, aliases,
         journal, last, sent>>

-----------------------------------------------------------------------------
(* Program constants *)

RATE_LIMIT_WINDOW == 1000

RATE_LIMIT_MAX_EVENTS == 10

DEFAULT_MAX_ROOM_SIZE == 10

MIN_ROOM_SIZE == 2

MAX_ROOM_SIZE_LIMIT == 50

MAX_ROOM_NAME == 100

MAX_MSG_LENGTH == 1000

-----------------------------------------------------------------------------
(* Bounds of the model *)

\* the MAX_ROOM_SIZE the environment sets
EnvRoomSize == 2

\* the clock stops advancing here
MaxTime == 2002

\* rate-limited events the environment sends in all, in the signaling runs
MaxRelayEvents == 2

\* event types the environment sends, in the burst runs
MaxKeys == 1

\* events of one key the environment sends within one window, in the burst runs
MaxSeen == 12

\* rate-limited events the environment sends in all, in the room runs
MaxEvents == 3

\* the start-up runs try the integer settings of MAX_ROOM_SIZE from this far
\* below 0 to this far above MAX_ROOM_SIZE_LIMIT
EnvMargin == 2

-----------------------------------------------------------------------------
(* Strings *)

S1 == <<"s", "1">>

S2 == <<"s", "2">>

S3 == <<"s", "3">>

R1 == <<"r", "1">>

\* socket ids the transport assigns: all of one length
Conns == {S1, S2, S3}

LOWER == <<"a","b","c","d","e","f","g","h","i","j","k","l","m",
           "n","o","p","q","r","s","t","u","v","w","x","y","z">>

UPPER == <<"A","B","C","D","E","F","G","H","I","J","K","L","M",
           "N","O","P","Q","R","S","T","U","V","W","X","Y","Z">>

DIGITS == {"0","1","2","3","4","5","6","7","8","9"}

Range(f) == {f[i] : i \in DOMAIN f}

\* \w of a regular expression
WordChars == Range(LOWER) \cup Range(UPPER) \cup DIGITS \cup {"_"}

\* [a-zA-Z0-9_-]
RoomChars == WordChars \cup {"-"}

\* the /i flag: compare in lower case
LowerChar(ch) ==
    IF ch \in Range(UPPER)
    THEN LOWER[CHOOSE i \in DOMAIN UPPER : UPPER[i] = ch]
    ELSE ch

ToLower(s) == [i \in DOMAIN s |-> LowerChar(s[i])]

Includes(s, pat) ==
    \E i \in 1..(Len(s) - Len(pat) + 1) : SubSeq(s, i, i + Len(pat) - 1) = pat

StartsWith(s, prefix) ==
    /\ Len(prefix) <= Len(s)
    /\ SubSeq(s, 1, Len(prefix)) = prefix

Repeat(ch, n) == [i \in 1..n |-> ch]

-----------------------------------------------------------------------------
(* JavaScript values *)

Undefined == [t |-> "undefined", v |-> <<>>]

Null == [t |-> "null", v |-> <<>>]

Str(s) == [t |-> "string", v |-> s]

Num(digits) == [t |-> "number", v |-> digits]

\* an object without the fields the handlers read; v labels its content
Obj(label) == [t |-> "object", v |-> label]

\* !!x
Truthy(x) ==
    CASE x.t = "undefined" -> FALSE
      [] x.t = "null" -> FALSE
      [] x.t = "string" -> x.v # <<>>
      [] x.t = "number" -> x.v # <<"0">>
      [] OTHER -> TRUE

\* typeof x
TypeOf(x) == IF x.t = "null" THEN "object" ELSE x.t

-----------------------------------------------------------------------------
(* Rate limiter *)

Key_ignoresEvent(socketId, event) == socketId

\* `${socketId}:${event}`
Key(socketId, event) == socketId \o <<":", event>>

MapSet(map, key, value) ==
    [k \in DOMAIN map \cup {key} |-> IF k = key THEN value ELSE map[k]]

MapDelete(map, keys) == [k \in DOMAIN map \ keys |-> map[k]]

\* the window keeps counting after it is full
isRateLimited_countsRejected(map, socketId, event, t) ==
    LET key == Key(socketId, event) IN
    IF key \notin DOMAIN map
    THEN [limited |-> FALSE,
          map |-> MapSet(map, key, [count |-> 1, resetTime |-> t + RATE_LIMIT_WINDOW])]
    ELSE LET limit == map[key] IN
         IF t > limit.resetTime
         THEN [limited |-> FALSE,
               map |-> [map EXCEPT ![key] = [count |-> 1, resetTime |-> t + RATE_LIMIT_WINDOW]]]
         ELSE IF limit.count > RATE_LIMIT_MAX_EVENTS
         THEN [limited |-> TRUE, map |-> map]
         ELSE [limited |-> FALSE, map |-> [map EXCEPT ![key].count = @ + 1]]

\* the window is renewed one millisecond late
isRateLimited_lateReset(map, socketId, event, t) ==
    LET key == Key(socketId, event) IN
    IF key \notin DOMAIN map
    THEN [limited |-> FALSE,
          map |-> MapSet(map, key, [count |-> 1, resetTime |-> t + RATE_LIMIT_WINDOW])]
    ELSE LET limit == map[key] IN
         IF t > limit.resetTime + 1
         THEN [limited |-> FALSE,
               map |-> [map EXCEPT ![key] = [count |-> 1, resetTime |-> t + RATE_LIMIT_WINDOW]]]
         ELSE IF limit.count >= RATE_LIMIT_MAX_EVENTS
         THEN [limited |-> TRUE, map |-> map]
         ELSE [limited |-> FALSE, map |-> [map EXCEPT ![key].count = @ + 1]]

\* a rejected event renews the window
isRateLimited_extendsWindow(map, socketId, event, t) ==
    LET key == Key(socketId, event) IN
    IF key \notin DOMAIN map
    THEN [limited |-> FALSE,
          map |-> MapSet(map, key, [count |-> 1, resetTime |-> t + RATE_LIMIT_WINDOW])]
    ELSE LET limit == map[key] IN
         IF t > limit.resetTime
         THEN [limited |-> FALSE,
               map |-> [map EXCEPT ![key] = [count |-> 1, resetTime |-> t + RATE_LIMIT_WINDOW]]]
         ELSE IF limit.count >= RATE_LIMIT_MAX_EVENTS
         THEN [limited |-> TRUE,
               map |-> [map EXCEPT ![key].resetTime = t + RATE_LIMIT_WINDOW]]
         ELSE [limited |-> FALSE, map |-> [map EXCEPT ![key].count = @ + 1]]

\* a renewed window starts empty
isRateLimited_resetsToZero(map, socketId, event, t) ==
    LET key == Key(socketId, event) IN
    IF key \notin DOMAIN map
    THEN [limited |-> FALSE,
          map |-> MapSet(map, key, [count |-> 1, resetTime |-> t + RATE_LIMIT_WINDOW])]
    ELSE LET limit == map[key] IN
         IF t > limit.resetTime
         THEN [limited |-> FALSE,
               map |-> [map EXCEPT ![key] = [count |-> 0, resetTime |-> t + RATE_LIMIT_WINDOW]]]
         ELSE IF limit.count >= RATE_LIMIT_MAX_EVENTS
         THEN [limited |-> TRUE, map |-> map]
         ELSE [limited |-> FALSE, map |-> [map EXCEPT ![key].count = @ + 1]]

\* a full window does not reject
isRateLimited_neverLimits(map, socketId, event, t) ==
    LET key == Key(socketId, event) IN
    IF key \notin DOMAIN map
    THEN [limited |-> FALSE,
          map |-> MapSet(map, key, [count |-> 1, resetTime |-> t + RATE_LIMIT_WINDOW])]
    ELSE LET limit == map[key] IN
         IF t > limit.resetTime
         THEN [limited |-> FALSE,
               map |-> [map EXCEPT ![key] = [count |-> 1, resetTime |-> t + RATE_LIMIT_WINDOW]]]
         ELSE [limited |-> FALSE, map |-> [map EXCEPT ![key].count = @ + 1]]

\* isRateLimited(socketId, event) at time t: the verdict and the map it leaves
isRateLimited(map, socketId, event, t) ==
    LET key == Key(socketId, event) IN
    IF key \notin DOMAIN map
    THEN [limited |-> FALSE,
          map |-> MapSet(map, key, [count |-> 1, resetTime |-> t + RATE_LIMIT_WINDOW])]
    ELSE LET limit == map[key] IN
         IF t > limit.resetTime
         THEN [limited |-> FALSE,
               map |-> [map EXCEPT ![key] = [count |-> 1, resetTime |-> t + RATE_LIMIT_WINDOW]]]
         ELSE IF limit.count >= RATE_LIMIT_MAX_EVENTS
         THEN [limited |-> TRUE, map |-> map]
         ELSE [limited |-> FALSE, map |-> [map EXCEPT ![key].count = @ + 1]]

-----------------------------------------------------------------------------
(* Validators *)

OFFER == <<"o","f","f","e","r">>

ANSWER == <<"a","n","s","w","e","r">>

\* /^[a-zA-Z0-9_-]+$/.test(s)
IsRoomName(s) == Len(s) >= 1 /\ \A i \in DOMAIN s : s[i] \in RoomChars

\* /<script|javascript:|on\w+=/i.test(s)
MatchesInjection(s) ==
    LET l == ToLower(s) IN
    \/ Includes(l, <<"<","s","c","r","i","p","t">>)
    \/ Includes(l, <<"j","a","v","a","s","c","r","i","p","t",":">>)
    \/ \E i \in 1..(Len(l) - 3) :
          /\ l[i] = "o"
          /\ l[i + 1] = "n"
          /\ \E j \in (i + 3)..Len(l) :
                /\ l[j] = "="
                /\ \A k \in (i + 2)..(j - 1) : s[k] \in WordChars

validateRoomData(data) ==
    /\ Truthy(data) /\ TypeOf(data) = "object"
    /\ Truthy(data.room) /\ TypeOf(data.room) = "string" /\ Len(data.room.v) # 0
    /\ Truthy(data.socketId) /\ TypeOf(data.socketId) = "string"
    /\ Len(data.socketId.v) # 0
    /\ ~(Len(data.room.v) > MAX_ROOM_NAME \/ ~IsRoomName(data.room.v))

validateSDPData(data) ==
    /\ Truthy(data) /\ TypeOf(data) = "object"
    /\ Truthy(data.to) /\ TypeOf(data.to) = "string"
    /\ Truthy(data.sender) /\ TypeOf(data.sender) = "string"
    /\ Truthy(data.description) /\ TypeOf(data.description) = "object"
    /\ Truthy(data.description.type)
    /\ data.description.type \in {Str(OFFER), Str(ANSWER)}
    /\ Truthy(data.description.sdp) /\ TypeOf(data.description.sdp) = "string"

\* the end-of-candidates null is not let through
validateICEData_rejectsNull(data) ==
    /\ Truthy(data) /\ TypeOf(data) = "object"
    /\ Truthy(data.to) /\ TypeOf(data.to) = "string"
    /\ Truthy(data.sender) /\ TypeOf(data.sender) = "string"
    /\ ~(~Truthy(data.candidate) \/ TypeOf(data.candidate) # "object")

validateICEData(data) ==
    /\ Truthy(data) /\ TypeOf(data) = "object"
    /\ Truthy(data.to) /\ TypeOf(data.to) = "string"
    /\ Truthy(data.sender) /\ TypeOf(data.sender) = "string"
    /\ ~(data.candidate # Null
         /\ (~Truthy(data.candidate) \/ TypeOf(data.candidate) # "object"))

\* the injection test is skipped
validateChatData_noInjectionTest(data) ==
    /\ Truthy(data) /\ TypeOf(data) = "object"
    /\ Truthy(data.room) /\ TypeOf(data.room) = "string"
    /\ Truthy(data.sender) /\ TypeOf(data.sender) = "string"
    /\ Truthy(data.msg) /\ TypeOf(data.msg) = "string"
    /\ ~(Len(data.msg.v) = 0 \/ Len(data.msg.v) > MAX_MSG_LENGTH)

validateChatData(data) ==
    /\ Truthy(data) /\ TypeOf(data) = "object"
    /\ Truthy(data.room) /\ TypeOf(data.room) = "string"
    /\ Truthy(data.sender) /\ TypeOf(data.sender) = "string"
    /\ Truthy(data.msg) /\ TypeOf(data.msg) = "string"
    /\ ~(Len(data.msg.v) = 0 \/ Len(data.msg.v) > MAX_MSG_LENGTH)
    /\ ~MatchesInjection(data.msg.v)

-----------------------------------------------------------------------------
(* Room registry: the adapter's rooms map, as the handlers use it *)

Members(rs, room) == IF room \in DOMAIN rs THEN rs[room] ELSE {}

\* the size is always the 0 of the catch block
getRoomSize_alwaysEmpty(rs, room) == 0

\* socket.adapter.rooms.get(room).size, 0 without an entry
getRoomSize(rs, room) == IF room \in DOMAIN rs THEN Cardinality(rs[room]) ELSE 0

\* joining a room a second time takes the socket out of it
Join_toggle(rs, room, id) ==
    IF id \in Members(rs, room)
    THEN MapSet(rs, room, Members(rs, room) \ {id})
    ELSE MapSet(rs, room, Members(rs, room) \cup {id})

\* socket.join(room)
Join(rs, room, id) == MapSet(rs, room, Members(rs, room) \cup {id})

\* leaving a room leaves the socket in it
Leave_stays(rs, room, id) == rs

\* an emptied room keeps its entry
Leave_keepsEntry(rs, room, id) ==
    IF room \notin DOMAIN rs THEN rs
    ELSE [rs EXCEPT ![room] = @ \ {id}]

\* socket.leave(room): an emptied room loses its entry
Leave(rs, room, id) ==
    IF room \notin DOMAIN rs THEN rs
    ELSE IF rs[room] \ {id} = {} THEN MapDelete(rs, {room})
    ELSE [rs EXCEPT ![room] = @ \ {id}]

\* the closing socket is still in its rooms when the handlers run
LeaveAll_keepsRooms(rs, id) == rs

\* the rooms left when a socket closes: it is removed from every room
LeaveAll(rs, id) ==
    LET kept == {r \in DOMAIN rs : rs[r] \ {id} # {}} IN
    [r \in kept |-> rs[r] \ {id}]

\* socket.rooms
SocketRooms(rs, id) == {r \in DOMAIN rs : id \in rs[r]}

Emit(to, event, body) == [to |-> to, event |-> event, body |-> body]

BroadcastTo_everyone(rs, room, id, event, body) ==
    {Emit(m, event, body) : m \in Members(rs, room)}

\* socket.to(room).emit(event, body): every member of the room but the socket
BroadcastTo(rs, room, id, event, body) ==
    {Emit(m, event, body) : m \in Members(rs, room) \ {id}}

-----------------------------------------------------------------------------
(* Configuration *)

\* the digits of radix 16 in the order of their values
HexDigits == <<"0","1","2","3","4","5","6","7","8","9","a","b","c","d","e","f">>

DigitValue(ch) == (CHOOSE i \in DOMAIN HexDigits : HexDigits[i] = LowerChar(ch)) - 1

IsDigit(ch, radix) ==
    \E i \in 1..radix : HexDigits[i] = LowerChar(ch)

\* String(n) of an integer
RECURSIVE NumberToString(_)
NumberToString(n) ==
    IF n < 0 THEN <<"-">> \o NumberToString(-n)
    ELSE IF n < 10 THEN <<HexDigits[n + 1]>>
    ELSE Append(NumberToString(n \div 10), HexDigits[(n % 10) + 1])

WhiteSpace == {" ", "\t", "\n"}

RECURSIVE TrimStart(_)
TrimStart(s) ==
    IF s # <<>> /\ Head(s) \in WhiteSpace THEN TrimStart(Tail(s)) ELSE s

\* the longest prefix of s made of digits of the radix
RECURSIVE DigitPrefix(_, _)
DigitPrefix(s, radix) ==
    IF s # <<>> /\ IsDigit(Head(s), radix)
    THEN <<Head(s)>> \o DigitPrefix(Tail(s), radix)
    ELSE <<>>

RECURSIVE RadixValue(_, _)
RadixValue(digits, radix) ==
    IF digits = <<>> THEN 0
    ELSE RadixValue(SubSeq(digits, 1, Len(digits) - 1), radix) * radix
         + DigitValue(digits[Len(digits)])

NaN == [nan |-> TRUE, n |-> 0]

\* parseInt(x) without a radix: x is undefined (set is FALSE) or the string v.
\* Leading white space is skipped, a sign is read, 0x or 0X selects radix 16,
\* and the digits up to the first other character are the value; NaN without
\* a digit.
parseInt(x) ==
    IF ~x.set THEN NaN
    ELSE LET trimmed == TrimStart(x.v)
             signed == trimmed # <<>> /\ Head(trimmed) \in {"+", "-"}
             sign == IF trimmed # <<>> /\ Head(trimmed) = "-" THEN -1 ELSE 1
             unsigned == IF signed THEN Tail(trimmed) ELSE trimmed
             hex == /\ Len(unsigned) >= 2
                    /\ unsigned[1] = "0"
                    /\ unsigned[2] \in {"x", "X"}
             radix == IF hex THEN 16 ELSE 10
             digits == DigitPrefix(IF hex THEN Tail(Tail(unsigned)) ELSE unsigned, radix)
         IN IF digits = <<>> THEN NaN
            ELSE [nan |-> FALSE, n |-> sign * RadixValue(digits, radix)]

\* parseInt(process.env.MAX_ROOM_SIZE) || 10: NaN and 0 are falsy
LoadConfig(env) ==
    LET parsed == parseInt(env) IN
    [MAX_ROOM_SIZE |-> IF parsed.nan \/ parsed.n = 0
                       THEN DEFAULT_MAX_ROOM_SIZE
                       ELSE parsed.n]

validateConfig(cfg) ==
    ~(cfg.MAX_ROOM_SIZE < MIN_ROOM_SIZE \/ cfg.MAX_ROOM_SIZE > MAX_ROOM_SIZE_LIMIT)

\* process.env.MAX_ROOM_SIZE: unset, or a string
Unset == [set |-> FALSE, v |-> <<>>]

Setting(s) == [set |-> TRUE, v |-> s]

EnvSettings == {Setting(NumberToString(EnvRoomSize))}

-----------------------------------------------------------------------------
(* State after start-up: the configuration is loaded and validated, no     *)
(* socket is connected.                                                    *)

NoEvent == [conn |-> <<>>, event |-> "none", data |-> Undefined,
            outcome |-> "none", age |-> -1, prior |-> 0, member |-> FALSE]

Init ==
    /\ \E env \in EnvSettings :
          /\ config = LoadConfig(env)
          /\ validateConfig(config)
    /\ connected = {}
    /\ closed = {}
    /\ rooms = << >>
    /\ rateLimitMap = << >>
    /\ now = 0
    /\ windowLog = << >>
    /\ aliases = << >>
    /\ journal = << >>
    /\ last = NoEvent
    /\ sent = {}

-----------------------------------------------------------------------------
(* History of the rate-limit windows, kept beside the program's own map:   *)
(* a key's window is opened by its first event, or by its first event      *)
(* later than RATE_LIMIT_WINDOW after the opening of the window before.    *)

HasWindow(c, event) == <<c, event>> \in DOMAIN windowLog

Age(c, event) ==
    IF HasWindow(c, event) THEN now - windowLog[<<c, event>>].opened ELSE -1

Prior(c, event) == IF HasWindow(c, event) THEN windowLog[<<c, event>>].seen ELSE 0

InWindow(c, event) == HasWindow(c, event) /\ Age(c, event) <= RATE_LIMIT_WINDOW

Logged(c, event) ==
    IF InWindow(c, event)
    THEN [windowLog EXCEPT ![<<c, event>>].seen = @ + 1]
    ELSE MapSet(windowLog, <<c, event>>, [opened |-> now, seen |-> 1])

\* the environment sends at most `budget` events of one key within one window
Paced(c, event, budget) == ~InWindow(c, event) \/ Prior(c, event) < budget

\* the socket is, before the step, a member of the room its payload names
IsMember(c, data) ==
    /\ "room" \in DOMAIN data
    /\ data.room.t = "string"
    /\ c \in Members(rooms, data.room.v)

Handled(c, event, data, outcome) ==
    [conn |-> c, event |-> event, data |-> data, outcome |-> outcome,
     age |-> Age(c, event), prior |-> Prior(c, event), member |-> IsMember(c, data)]

\* the participant ids the socket holds, by the history below
HeldIds(c) == {k[2] : k \in {x \in DOMAIN aliases : x[1] = c /\ aliases[x].held}}

\* History of the participant ids a socket has subscribed with, written
\* from the record of the step: an id is held from the subscribe that
\* succeeded with it (room is the room of that subscribe) until the socket
\* sends leaveRoom for the room of that name, and is forgotten when the
\* socket closes.
AliasesAfter(step) ==
    CASE step.event = "subscribe" /\ step.outcome = "ok" ->
             MapSet(aliases, <<step.conn, step.data.socketId.v>>,
                    [held |-> TRUE, room |-> step.data.room.v])
      [] /\ step.event = "leaveRoom" /\ step.outcome = "ok"
         /\ step.data.room.t = "string"
         /\ <<step.conn, step.data.room.v>> \in DOMAIN aliases ->
             [aliases EXCEPT ![<<step.conn, step.data.room.v>>].held = FALSE]
      [] step.event = "disconnect" ->
             MapDelete(aliases, {k \in DOMAIN aliases : k[1] = step.conn})
      [] OTHER -> aliases

\* History of the events of the last RATE_LIMIT_WINDOW milliseconds, written
\* from the record of the step: for each socket and event type, and each
\* time at which events of it were handled, the number of them that count.
\* The entries of a socket go when it closes.
Recent(entries, t) ==
    [u \in {x \in DOMAIN entries : x >= t - RATE_LIMIT_WINDOW} |-> entries[u]]

Journalled ==
    {"subscribe", "newUserStart", "sdp", "ice candidates", "chat", "leaveRoom"}

JournalAfter(step, counts) ==
    LET recent == [k \in DOMAIN journal |-> Recent(journal[k], now')]
        key == <<step.conn, step.event>>
        entries == IF key \in DOMAIN recent THEN recent[key] ELSE << >>
        before == IF now' \in DOMAIN entries THEN entries[now'] ELSE 0
    IN CASE step.event \in Journalled /\ counts ->
                MapSet(recent, key, MapSet(entries, now', before + 1))
         [] step.event = "disconnect" ->
                MapDelete(recent, {k \in DOMAIN recent : k[1] = step.conn})
         [] OTHER -> recent

RECURSIVE SumOver(_)
SumOver(entries) ==
    IF DOMAIN entries = {} THEN 0
    ELSE LET t == CHOOSE x \in DOMAIN entries : TRUE IN
         entries[t] + SumOver([u \in DOMAIN entries \ {t} |-> entries[u]])

Count(c, event) ==
    IF <<c, event>> \in DOMAIN journal THEN SumOver(journal[<<c, event>>]) ELSE 0

\* the step changed the membership of a room or sent a message other than an
\* error reply
Effective == rooms' # rooms \/ \E m \in sent' : m.event # "error"

\* the history is kept by the runs that ask about participant ids
Tracked == aliases' = AliasesAfter(last') /\ UNCHANGED journal

\* the runs that ask how many events took effect count those
Journaled == journal' = JournalAfter(last', Effective) /\ UNCHANGED aliases

\* the runs that ask how many events the rate limiter let pass count those
Clocked ==
    /\ journal' = JournalAfter(last', last'.outcome # "rateLimited")
    /\ UNCHANGED aliases

\* the runs that ask how many events validation or a full room refused count
\* those
Refused ==
    /\ journal' = JournalAfter(last', last'.outcome \in {"invalid", "roomFull"})
    /\ UNCHANGED aliases

Untracked == UNCHANGED <<aliases, journal>>

ErrorTo(c, message) == Emit(c, "error", [message |-> message])

-----------------------------------------------------------------------------
(* Connection and disconnection *)

\* a socket connects: it is in the room of its own id, stream(socket) runs
Connect(c) ==
    /\ c \notin connected \cup closed
    /\ connected' = connected \cup {c}
    /\ rooms' = Join(rooms, c, c)
    /\ last' = [NoEvent EXCEPT !.conn = c, !.event = "connect"]
    /\ sent' = {}
    /\ UNCHANGED <<config, closed, rateLimitMap, now, windowLog>>

\* the sweep compares whole keys with the id and so finds none
KeysToDelete_wholeKey(map, id) == {key \in DOMAIN map : key = id}

\* the keys the disconnect handler deletes
KeysToDelete(map, id) == {key \in DOMAIN map : StartsWith(key, id)}

DisconnectNotices_beforeLeaving(rs, id, body) ==
    UNION {BroadcastTo(rooms, room, id, "userLeft", body) :
               room \in SocketRooms(rooms, id) \ {id}}

\* the userLeft messages of one disconnect handler, over socket.rooms
DisconnectNotices(rs, id, body) ==
    UNION {BroadcastTo(rs, room, id, "userLeft", body) :
               room \in SocketRooms(rs, id) \ {id}}

\* the socket closes: the transport takes it out of every room, then runs
\* the 'disconnect' handlers of the server and of stream(socket)
Disconnect(c) ==
    /\ c \in connected
    /\ connected' = connected \ {c}
    /\ closed' = closed \cup {c}
    /\ rooms' = LeaveAll(rooms, c)
    /\ rateLimitMap' = MapDelete(rateLimitMap, KeysToDelete(rateLimitMap, c))
    /\ windowLog' = MapDelete(windowLog, {k \in DOMAIN windowLog : k[1] = c})
    /\ last' = [NoEvent EXCEPT !.conn = c, !.event = "disconnect", !.outcome = "ok",
                               !.data = [t |-> "history",
                                         windows |-> {k \in DOMAIN windowLog : k[1] = c},
                                         rooms |-> SocketRooms(rooms, c),
                                         ids |-> HeldIds(c)]]
    /\ sent' = DisconnectNotices(rooms', c, [socketId |-> Str(c)])
               \cup DisconnectNotices(rooms', c, [socketId |-> Str(c), timestamp |-> now])
    /\ UNCHANGED <<config, now>>

-----------------------------------------------------------------------------
(* Event handlers of stream(socket).  Each handler's effect is computed as *)
(* a record [outcome, rooms, sent] after the rate limiter has been asked.  *)

Effect(outcome, rs, msgs) == [outcome |-> outcome, rooms |-> rs, sent |-> msgs]

\* the size check lets one more member in
SubscribeAdmitted_offByOne(rs, cfg, c, data, t) ==
    IF ~validateRoomData(data)
    THEN Effect("invalid", rs, {ErrorTo(c, "Invalid room data")})
    ELSE IF getRoomSize(rs, data.room.v) > cfg.MAX_ROOM_SIZE
    THEN Effect("roomFull", rs, {ErrorTo(c, "Room is full. Maximum capacity reached.")})
    ELSE LET joined == Join(Join(rs, data.room.v, c), data.socketId.v, c) IN
         Effect("ok", joined,
                IF data.room.v \in DOMAIN joined
                THEN BroadcastTo(joined, data.room.v, c, "new user",
                                 [socketId |-> data.socketId, timestamp |-> t])
                ELSE {})

\* the newcomer is announced under its socket id, not the id it supplied
SubscribeAdmitted_announcesSocket(rs, cfg, c, data, t) ==
    IF ~validateRoomData(data)
    THEN Effect("invalid", rs, {ErrorTo(c, "Invalid room data")})
    ELSE IF getRoomSize(rs, data.room.v) >= cfg.MAX_ROOM_SIZE
    THEN Effect("roomFull", rs, {ErrorTo(c, "Room is full. Maximum capacity reached.")})
    ELSE LET joined == Join(Join(rs, data.room.v, c), data.socketId.v, c) IN
         Effect("ok", joined,
                IF data.room.v \in DOMAIN joined
                THEN BroadcastTo(joined, data.room.v, c, "new user",
                                 [socketId |-> Str(c), timestamp |-> t])
                ELSE {})

\* the members of a full room are told of the refused attempt
SubscribeAdmitted_announcesRefusal(rs, cfg, c, data, t) ==
    IF ~validateRoomData(data)
    THEN Effect("invalid", rs, {ErrorTo(c, "Invalid room data")})
    ELSE IF getRoomSize(rs, data.room.v) >= cfg.MAX_ROOM_SIZE
    THEN Effect("roomFull", rs,
                {ErrorTo(m, "Room is full. Maximum capacity reached.") :
                    m \in Members(rs, data.room.v) \cup {c}})
    ELSE LET joined == Join(Join(rs, data.room.v, c), data.socketId.v, c) IN
         Effect("ok", joined,
                IF data.room.v \in DOMAIN joined
                THEN BroadcastTo(joined, data.room.v, c, "new user",
                                 [socketId |-> data.socketId, timestamp |-> t])
                ELSE {})

\* the socket does not join the room of the participant id
SubscribeAdmitted_roomOnly(rs, cfg, c, data, t) ==
    IF ~validateRoomData(data)
    THEN Effect("invalid", rs, {ErrorTo(c, "Invalid room data")})
    ELSE IF getRoomSize(rs, data.room.v) >= cfg.MAX_ROOM_SIZE
    THEN Effect("roomFull", rs, {ErrorTo(c, "Room is full. Maximum capacity reached.")})
    ELSE LET joined == Join(rs, data.room.v, c) IN
         Effect("ok", joined,
                IF data.room.v \in DOMAIN joined
                THEN BroadcastTo(joined, data.room.v, c, "new user",
                                 [socketId |-> data.socketId, timestamp |-> t])
                ELSE {})

\* socket.on('subscribe'), once admitted by the rate limiter
SubscribeAdmitted(rs, cfg, c, data, t) ==
    IF ~validateRoomData(data)
    THEN Effect("invalid", rs, {ErrorTo(c, "Invalid room data")})
    ELSE IF getRoomSize(rs, data.room.v) >= cfg.MAX_ROOM_SIZE
    THEN Effect("roomFull", rs, {ErrorTo(c, "Room is full. Maximum capacity reached.")})
    ELSE LET joined == Join(Join(rs, data.room.v, c), data.socketId.v, c) IN
         Effect("ok", joined,
                IF data.room.v \in DOMAIN joined
                THEN BroadcastTo(joined, data.room.v, c, "new user",
                                 [socketId |-> data.socketId, timestamp |-> t])
                ELSE {})

Subscribe(c, data) ==
    /\ c \in connected
    /\ LET rl == isRateLimited(rateLimitMap, c, "subscribe", now)
           eff == IF rl.limited
                  THEN Effect("rateLimited", rooms,
                              {ErrorTo(c, "Too many requests. Please slow down.")})
                  ELSE SubscribeAdmitted(rooms, config, c, data, now)
       IN /\ rateLimitMap' = rl.map
          /\ rooms' = eff.rooms
          /\ sent' = eff.sent
          /\ last' = Handled(c, "subscribe", data, eff.outcome)
    /\ windowLog' = Logged(c, "subscribe")
    /\ UNCHANGED <<config, connected, closed, now>>

\* socket.on('newUserStart'), once admitted
NewUserStartAdmitted(rs, c, data, t) ==
    IF ~Truthy(data) \/ ~Truthy(data.to) \/ ~Truthy(data.sender)
    THEN Effect("invalid", rs, {})
    ELSE Effect("ok", rs,
                BroadcastTo(rs, data.to.v, c, "newUserStart",
                            [sender |-> data.sender, timestamp |-> t]))

NewUserStart(c, data) ==
    /\ c \in connected
    /\ LET rl == isRateLimited(rateLimitMap, c, "newUserStart", now)
           eff == IF rl.limited
                  THEN Effect("rateLimited", rooms, {})
                  ELSE NewUserStartAdmitted(rooms, c, data, now)
       IN /\ rateLimitMap' = rl.map
          /\ sent' = eff.sent
          /\ last' = Handled(c, "newUserStart", data, eff.outcome)
    /\ windowLog' = Logged(c, "newUserStart")
    /\ UNCHANGED <<config, connected, closed, rooms, now>>

\* the relay names the socket as the sender
SdpAdmitted_ownSender(rs, c, data, t) ==
    IF ~validateSDPData(data)
    THEN Effect("invalid", rs, {})
    ELSE Effect("ok", rs,
                BroadcastTo(rs, data.to.v, c, "sdp",
                            [description |-> data.description, sender |-> Str(c),
                             timestamp |-> t]))

\* socket.on('sdp'), once admitted
SdpAdmitted(rs, c, data, t) ==
    IF ~validateSDPData(data)
    THEN Effect("invalid", rs, {})
    ELSE Effect("ok", rs,
                BroadcastTo(rs, data.to.v, c, "sdp",
                            [description |-> data.description, sender |-> data.sender,
                             timestamp |-> t]))

Sdp(c, data) ==
    /\ c \in connected
    /\ LET rl == isRateLimited(rateLimitMap, c, "sdp", now)
           eff == IF rl.limited
                  THEN Effect("rateLimited", rooms, {})
                  ELSE SdpAdmitted(rooms, c, data, now)
       IN /\ rateLimitMap' = rl.map
          /\ sent' = eff.sent
          /\ last' = Handled(c, "sdp", data, eff.outcome)
    /\ windowLog' = Logged(c, "sdp")
    /\ UNCHANGED <<config, connected, closed, rooms, now>>

\* an invalid candidate is reported to the caller
IceAdmitted_reportsInvalid(rs, c, data, t) ==
    IF ~validateICEData(data)
    THEN Effect("invalid", rs, {ErrorTo(c, "Invalid ICE candidate")})
    ELSE Effect("ok", rs,
                BroadcastTo(rs, data.to.v, c, "ice candidates",
                            [candidate |-> data.candidate, sender |-> data.sender,
                             timestamp |-> t]))

\* socket.on('ice candidates'), once admitted
IceAdmitted(rs, c, data, t) ==
    IF ~validateICEData(data)
    THEN Effect("invalid", rs, {})
    ELSE Effect("ok", rs,
                BroadcastTo(rs, data.to.v, c, "ice candidates",
                            [candidate |-> data.candidate, sender |-> data.sender,
                             timestamp |-> t]))

IceCandidates(c, data) ==
    /\ c \in connected
    /\ LET rl == isRateLimited(rateLimitMap, c, "ice candidates", now)
           eff == IF rl.limited
                  THEN Effect("rateLimited", rooms, {})
                  ELSE IceAdmitted(rooms, c, data, now)
       IN /\ rateLimitMap' = rl.map
          /\ sent' = eff.sent
          /\ last' = Handled(c, "ice candidates", data, eff.outcome)
    /\ windowLog' = Logged(c, "ice candidates")
    /\ UNCHANGED <<config, connected, closed, rooms, now>>

\* the chat goes to the whole room, the sender included
ChatAdmitted_echo(rs, c, data, t) ==
    IF ~validateChatData(data)
    THEN Effect("invalid", rs, {ErrorTo(c, "Invalid message format")})
    ELSE Effect("ok", rs,
                {Emit(m, "chat", [sender |-> data.sender, msg |-> data.msg,
                                  timestamp |-> t]) : m \in Members(rs, data.room.v)})

\* socket.on('chat'), once admitted
ChatAdmitted(rs, c, data, t) ==
    IF ~validateChatData(data)
    THEN Effect("invalid", rs, {ErrorTo(c, "Invalid message format")})
    ELSE Effect("ok", rs,
                BroadcastTo(rs, data.room.v, c, "chat",
                            [sender |-> data.sender, msg |-> data.msg, timestamp |-> t]))

Chat(c, data) ==
    /\ c \in connected
    /\ LET rl == isRateLimited(rateLimitMap, c, "chat", now)
           eff == IF rl.limited
                  THEN Effect("rateLimited", rooms,
                              {ErrorTo(c, "Too many messages. Please slow down.")})
                  ELSE ChatAdmitted(rooms, c, data, now)
       IN /\ rateLimitMap' = rl.map
          /\ sent' = eff.sent
          /\ last' = Handled(c, "chat", data, eff.outcome)
    /\ windowLog' = Logged(c, "chat")
    /\ UNCHANGED <<config, connected, closed, rooms, now>>

\* socket.on('leaveRoom'): no rate limiter, no validator
\* the socket leaves every room it is in
LeaveRoomEffect_leavesAll(rs, c, data, t) ==
    IF Truthy(data) /\ Truthy(data.room)
    THEN LET left == LeaveAll(rs, c) IN
         Effect("ok", left,
                BroadcastTo(left, data.room.v, c, "userLeft",
                            [socketId |-> Str(c), timestamp |-> t]))
    ELSE Effect("ignored", rs, {})

\* the leaveRoom handler
LeaveRoomEffect(rs, c, data, t) ==
    IF Truthy(data) /\ Truthy(data.room)
    THEN LET left == Leave(rs, data.room.v, c) IN
         Effect("ok", left,
                BroadcastTo(left, data.room.v, c, "userLeft",
                            [socketId |-> Str(c), timestamp |-> t]))
    ELSE Effect("ignored", rs, {})

LeaveRoom(c, data) ==
    /\ c \in connected
    /\ LET eff == LeaveRoomEffect(rooms, c, data, now)
       IN /\ rooms' = eff.rooms
          /\ sent' = eff.sent
          /\ last' = [NoEvent EXCEPT !.conn = c, !.event = "leaveRoom",
                                     !.data = data, !.outcome = eff.outcome,
                                     !.member = IsMember(c, data)]
    /\ UNCHANGED <<config, connected, closed, rateLimitMap, now, windowLog>>

-----------------------------------------------------------------------------
(* Faults.  A call inside a handler (the logger, the adapter, an emit)     *)
(* throws.  What the handler did before the call stays done.  Inside a try *)
(* block the catch block runs: it logs and, in subscribe and chat, emits   *)
(* an error to the socket.  The 'disconnect' handlers have no try block:   *)
(* the exception leaves the handler and reaches the 'uncaughtException'    *)
(* handler of the server, which shuts the process down.                    *)

\* where the subscribe handler is when the call throws: before the joins,
\* between them, or after them and before the broadcast
SubscribeFaultPoints == {"check", "join", "announce"}

SubscribeFault(c, data, point) ==
    /\ c \in connected
    /\ LET rl == isRateLimited(rateLimitMap, c, "subscribe", now)
           reachesJoin == /\ ~rl.limited
                          /\ validateRoomData(data)
                          /\ getRoomSize(rooms, data.room.v) < config.MAX_ROOM_SIZE
       IN /\ point # "check" => reachesJoin
          /\ rateLimitMap' = rl.map
          /\ rooms' = CASE point = "check" -> rooms
                         [] point = "join" -> Join(rooms, data.room.v, c)
                         [] point = "announce" ->
                                Join(Join(rooms, data.room.v, c), data.socketId.v, c)
          /\ sent' = {ErrorTo(c, "Internal server error")}
          /\ last' = Handled(c, "subscribe", data, "fault")
    /\ windowLog' = Logged(c, "subscribe")
    /\ UNCHANGED <<config, connected, closed, now>>

\* newUserStart, sdp, ice candidates: the catch block only logs
SignalFault(c, event, data) ==
    /\ c \in connected
    /\ rateLimitMap' = isRateLimited(rateLimitMap, c, event, now).map
    /\ sent' = {}
    /\ last' = Handled(c, event, data, "fault")
    /\ windowLog' = Logged(c, event)
    /\ UNCHANGED <<config, connected, closed, rooms, now>>

NewUserStartFault(c, data) == SignalFault(c, "newUserStart", data)

SdpFault(c, data) == SignalFault(c, "sdp", data)

IceCandidatesFault(c, data) == SignalFault(c, "ice candidates", data)

ChatFault(c, data) ==
    /\ c \in connected
    /\ rateLimitMap' = isRateLimited(rateLimitMap, c, "chat", now).map
    /\ sent' = {ErrorTo(c, "Failed to send message")}
    /\ last' = Handled(c, "chat", data, "fault")
    /\ windowLog' = Logged(c, "chat")
    /\ UNCHANGED <<config, connected, closed, rooms, now>>

\* socket.leave or the calls after it throw
LeaveRoomFault(c, data, left) ==
    /\ c \in connected
    /\ Truthy(data) /\ Truthy(data.room)
    /\ rooms' = IF left THEN Leave(rooms, data.room.v, c) ELSE rooms
    /\ sent' = {}
    /\ last' = [NoEvent EXCEPT !.conn = c, !.event = "leaveRoom", !.data = data,
                               !.outcome = "fault", !.member = IsMember(c, data)]
    /\ UNCHANGED <<config, connected, closed, rateLimitMap, now, windowLog>>

\* a 'disconnect' handler throws: gracefulShutdown('uncaughtException')
\* closes the server and the process exits, with every socket and both maps
DisconnectFault(c) ==
    /\ c \in connected
    /\ connected' = {}
    /\ closed' = closed \cup connected
    /\ rooms' = << >>
    /\ rateLimitMap' = << >>
    /\ windowLog' = << >>
    /\ sent' = {}
    /\ last' = [NoEvent EXCEPT !.conn = c, !.event = "disconnect",
                               !.outcome = "uncaught",
                               !.data = [t |-> "history",
                                         windows |-> {k \in DOMAIN windowLog : k[1] = c},
                                         rooms |-> SocketRooms(rooms, c),
                                         ids |-> HeldIds(c)]]
    /\ UNCHANGED <<config, now>>

\* time passes between two events
TickSteps == {RATE_LIMIT_WINDOW - 1, RATE_LIMIT_WINDOW, RATE_LIMIT_WINDOW + 1}

Tick(d) ==
    /\ now + d <= MaxTime
    /\ now' = now + d
    /\ last' = NoEvent
    /\ sent' = {}
    /\ UNCHANGED <<config, connected, closed, rooms, rateLimitMap, windowLog>>

-----------------------------------------------------------------------------------------------------------------------------------------------------
(* Inbound payloads the environment sends *)

\* a participant id is the socket's own id, as the client sends it, or S1
SubscribeData(c) ==
    {[t |-> "object", room |-> r, socketId |-> id] :
        r \in {Str(R1), Str(S1)}, id \in {Str(c), Str(S1)}}
    \cup {[t |-> "object", room |-> Str(<<"r", " ">>), socketId |-> Str(c)]}

SCRIPT == <<"<","s","c","r","i","p","t",">","a","l","e","r","t","(","1",")",
            "<","/","s","c","r","i","p","t",">">>

HI == <<"h", "i">>

ChatData(c) ==
    {[t |-> "object", room |-> Str(R1), sender |-> Str(c), msg |-> Str(HI)],
     [t |-> "object", room |-> Str(S1), sender |-> Str(c), msg |-> Str(HI)],
     [t |-> "object", room |-> Str(R1), sender |-> Str(c), msg |-> Str(SCRIPT)]}

LeaveRoomData(c) ==
    {[t |-> "undefined", room |-> Undefined], [t |-> "object", room |-> Undefined]}
    \cup {[t |-> "object", room |-> r] : r \in {Str(R1), Str(S1), Str(c)}}

-----------------------------------------------------------------------------
(* Rooms and chat: three sockets, MaxEvents rate-limited events in all *)

RECURSIVE SumSeen(_)
SumSeen(keys) ==
    IF keys = {} THEN 0
    ELSE LET k == CHOOSE x \in keys : TRUE IN windowLog[k].seen + SumSeen(keys \ {k})

Budget == SumSeen(DOMAIN windowLog) < MaxEvents

Next ==
    \/ /\ \E c \in Conns : Connect(c)
       /\ Untracked
    \/ /\ \E c \in Conns : Disconnect(c)
       /\ Untracked
    \/ /\ \E c \in Conns : \E data \in SubscribeData(c) : Budget /\ Subscribe(c, data)
       /\ Untracked
    \/ /\ \E c \in Conns : \E data \in ChatData(c) : Budget /\ Chat(c, data)
       /\ Untracked
    \/ /\ \E c \in Conns : \E data \in LeaveRoomData(c) : LeaveRoom(c, data)
       /\ Untracked

Spec == Init /\ [][Next]_vars

-----------------------------------------------------------------------------
(* Bursts: one socket sends events of MaxKeys types while the clock        *)
(* advances, at most MaxSeen events of one key within one window.          *)

BurstConns == {S1}

Description(type, sdp) == [t |-> "object", type |-> type, sdp |-> sdp]

NoDescription == [t |-> "undefined", type |-> Undefined, sdp |-> Undefined]

SDPTEXT == <<"v", "=", "0">>

BurstChatData(c) ==
    {[t |-> "object", room |-> Str(R1), sender |-> Str(c), msg |-> m] :
        m \in {Str(HI), Str(<<>>)}}

BurstSdpData(c) ==
    {[t |-> "object", to |-> Str(S2), sender |-> Str(c), description |-> d] :
        d \in {Description(Str(OFFER), Str(SDPTEXT)), NoDescription}}

BurstSubscribeData(c) ==
    {[t |-> "object", room |-> r, socketId |-> Str(c)] : r \in {Str(R1), Str(<<"r", " ">>)}}

BurstIceData(c) ==
    {[t |-> "object", to |-> Str(S2), sender |-> Str(c), candidate |-> cand] :
        cand \in {Null, Undefined}}

BurstNewUserStartData(c) ==
    {[t |-> "object", to |-> to, sender |-> Str(c)] : to \in {Str(S2), Undefined}}

\* the environment sends events of at most MaxKeys types
BurstPaced(c, event) ==
    /\ Paced(c, event, MaxSeen)
    /\ HasWindow(c, event) \/ Cardinality(DOMAIN windowLog) < MaxKeys

NextBurst ==
    \/ /\ \E c \in BurstConns : Connect(c)
       /\ Untracked
    \/ /\ \E d \in TickSteps : Tick(d)
       /\ Untracked
    \/ /\ \E c \in BurstConns : \E data \in BurstSubscribeData(c) :
             BurstPaced(c, "subscribe") /\ Subscribe(c, data)
       /\ Untracked
    \/ /\ \E c \in BurstConns : \E data \in BurstNewUserStartData(c) :
             BurstPaced(c, "newUserStart") /\ NewUserStart(c, data)
       /\ Untracked
    \/ /\ \E c \in BurstConns : \E data \in BurstSdpData(c) :
             BurstPaced(c, "sdp") /\ Sdp(c, data)
       /\ Untracked
    \/ /\ \E c \in BurstConns : \E data \in BurstIceData(c) :
             BurstPaced(c, "ice candidates") /\ IceCandidates(c, data)
       /\ Untracked
    \/ /\ \E c \in BurstConns : \E data \in BurstChatData(c) :
             BurstPaced(c, "chat") /\ Chat(c, data)
       /\ Untracked

SpecBurst == Init /\ [][NextBurst]_vars

-----------------------------------------------------------------------------
(* Sliding: the bursts above, with a count of the events the rate limiter  *)
(* let pass during the last RATE_LIMIT_WINDOW milliseconds.                *)

NextSlide ==
    \/ /\ \E c \in BurstConns : Connect(c)
       /\ Clocked
    \/ /\ \E d \in TickSteps : Tick(d)
       /\ Clocked
    \/ /\ \E c \in BurstConns : \E data \in BurstSubscribeData(c) :
             BurstPaced(c, "subscribe") /\ Subscribe(c, data)
       /\ Clocked
    \/ /\ \E c \in BurstConns : \E data \in BurstNewUserStartData(c) :
             BurstPaced(c, "newUserStart") /\ NewUserStart(c, data)
       /\ Clocked
    \/ /\ \E c \in BurstConns : \E data \in BurstSdpData(c) :
             BurstPaced(c, "sdp") /\ Sdp(c, data)
       /\ Clocked
    \/ /\ \E c \in BurstConns : \E data \in BurstIceData(c) :
             BurstPaced(c, "ice candidates") /\ IceCandidates(c, data)
       /\ Clocked
    \/ /\ \E c \in BurstConns : \E data \in BurstChatData(c) :
             BurstPaced(c, "chat") /\ Chat(c, data)
       /\ Clocked

SpecSlide == Init /\ [][NextSlide]_vars

-----------------------------------------------------------------------------
(* Floods: one socket sends events of MaxKeys types, past the limit of a   *)
(* window, at a second socket that is connected and reachable in the room  *)
(* of its own id.                                                          *)

FloodSubscribeData(c) ==
    {[t |-> "object", room |-> r, socketId |-> Str(c)] : r \in {Str(S2), Str(<<"r", " ">>)}}

FloodChatData(c) ==
    {[t |-> "object", room |-> Str(S2), sender |-> Str(c), msg |-> m] :
        m \in {Str(HI), Str(<<>>)}}

NextFlood ==
    \/ /\ \E c \in {S1, S2} : Connect(c)
       /\ Untracked
    \/ /\ \E c \in BurstConns : \E data \in FloodSubscribeData(c) :
             BurstPaced(c, "subscribe") /\ Subscribe(c, data)
       /\ Untracked
    \/ /\ \E c \in BurstConns : \E data \in BurstNewUserStartData(c) :
             BurstPaced(c, "newUserStart") /\ NewUserStart(c, data)
       /\ Untracked
    \/ /\ \E c \in BurstConns : \E data \in BurstSdpData(c) :
             BurstPaced(c, "sdp") /\ Sdp(c, data)
       /\ Untracked
    \/ /\ \E c \in BurstConns : \E data \in BurstIceData(c) :
             BurstPaced(c, "ice candidates") /\ IceCandidates(c, data)
       /\ Untracked
    \/ /\ \E c \in BurstConns : \E data \in FloodChatData(c) :
             BurstPaced(c, "chat") /\ Chat(c, data)
       /\ Untracked

SpecFlood == Init /\ [][NextFlood]_vars

-----------------------------------------------------------------------------
(* Refusals: the flood above, with a count of the events that validation   *)
(* or a full room refused.  The clock stands still, so every event falls   *)
(* into one window.                                                        *)

NextRefuse ==
    \/ /\ \E c \in {S1, S2} : Connect(c)
       /\ Refused
    \/ /\ \E c \in BurstConns : \E data \in FloodSubscribeData(c) :
             BurstPaced(c, "subscribe") /\ Subscribe(c, data)
       /\ Refused
    \/ /\ \E c \in BurstConns : \E data \in BurstNewUserStartData(c) :
             BurstPaced(c, "newUserStart") /\ NewUserStart(c, data)
       /\ Refused
    \/ /\ \E c \in BurstConns : \E data \in BurstSdpData(c) :
             BurstPaced(c, "sdp") /\ Sdp(c, data)
       /\ Refused
    \/ /\ \E c \in BurstConns : \E data \in BurstIceData(c) :
             BurstPaced(c, "ice candidates") /\ IceCandidates(c, data)
       /\ Refused
    \/ /\ \E c \in BurstConns : \E data \in FloodChatData(c) :
             BurstPaced(c, "chat") /\ Chat(c, data)
       /\ Refused

SpecRefuse == Init /\ [][NextRefuse]_vars

-----------------------------------------------------------------------------
(* Leaving: the flood above, and the flooding socket also sends leaveRoom  *)
(* events, at most MaxLeaves of them, for the room of the second socket.   *)
(* The clock stands still, so every event falls into one window.           *)

MaxLeaves == 11

FloodLeaveRoomData == {[t |-> "object", room |-> Str(S2)]}

NextLeave ==
    \/ /\ \E c \in {S1, S2} : Connect(c)
       /\ Journaled
    \/ /\ \E c \in BurstConns : \E data \in FloodSubscribeData(c) :
             BurstPaced(c, "subscribe") /\ Subscribe(c, data)
       /\ Journaled
    \/ /\ \E c \in BurstConns : \E data \in BurstNewUserStartData(c) :
             BurstPaced(c, "newUserStart") /\ NewUserStart(c, data)
       /\ Journaled
    \/ /\ \E c \in BurstConns : \E data \in BurstSdpData(c) :
             BurstPaced(c, "sdp") /\ Sdp(c, data)
       /\ Journaled
    \/ /\ \E c \in BurstConns : \E data \in BurstIceData(c) :
             BurstPaced(c, "ice candidates") /\ IceCandidates(c, data)
       /\ Journaled
    \/ /\ \E c \in BurstConns : \E data \in FloodChatData(c) :
             BurstPaced(c, "chat") /\ Chat(c, data)
       /\ Journaled
    \/ /\ \E c \in BurstConns : \E data \in FloodLeaveRoomData :
             Count(c, "leaveRoom") < MaxLeaves /\ LeaveRoom(c, data)
       /\ Journaled

SpecLeave == Init /\ [][NextLeave]_vars

-----------------------------------------------------------------------------
(* Keys: two sockets flood each other with chat events and the first also  *)
(* sends sdp events, at most MaxSeen events of one key; the clock stands   *)
(* still.                                                                   *)

KeysChatData(c) ==
    {[t |-> "object", room |-> Str(to), sender |-> Str(c), msg |-> Str(HI)] :
        to \in {S1, S2} \ {c}}

NextKeys ==
    \/ /\ \E c \in {S1, S2} : Connect(c)
       /\ Untracked
    \/ /\ \E c \in {S1, S2} : \E data \in KeysChatData(c) :
             Paced(c, "chat", MaxSeen) /\ Chat(c, data)
       /\ Untracked
    \/ /\ \E c \in BurstConns : \E data \in BurstSdpData(c) :
             Paced(c, "sdp", MaxSeen) /\ Sdp(c, data)
       /\ Untracked

SpecKeys == Init /\ [][NextKeys]_vars

-----------------------------------------------------------------------------
(* Sweeping: two sockets whose ids the transport chose so that one begins  *)
(* with the other (stream(socket) takes socket.id as it comes), MaxEvents  *)
(* rate-limited events in all.                                             *)

S10 == <<"s", "1", "0">>

SweepConns == {S1, S10}

NextSweep ==
    \/ /\ \E c \in SweepConns : Connect(c)
       /\ Untracked
    \/ /\ \E c \in SweepConns : Disconnect(c)
       /\ Untracked
    \/ /\ \E c \in SweepConns : \E data \in BurstSubscribeData(c) :
             Budget /\ Subscribe(c, data)
       /\ Untracked
    \/ /\ \E c \in SweepConns : \E data \in BurstChatData(c) :
             Budget /\ Chat(c, data)
       /\ Untracked

SpecSweep == Init /\ [][NextSweep]_vars

-----------------------------------------------------------------------------
(* Signaling: two sockets, MaxRelayEvents rate-limited events in all *)

RelayConns == {S1, S2}

RelaySubscribeData(c) ==
    {[t |-> "object", room |-> r, socketId |-> id] :
        r \in {Str(R1), Str(S1)}, id \in {Str(c), Str(S1)}}

SdpPayload(to, sender, description) ==
    [t |-> "object", to |-> to, sender |-> sender, description |-> description]

SdpData(c) ==
    {SdpPayload(to, snd, Description(Str(OFFER), Str(SDPTEXT))) :
        to \in {Str(S1), Str(S2), Str(R1)}, snd \in {Str(c), Str(S1)}}
    \cup {SdpPayload(to, Str(c), Description(Str(OFFER), Str(SDPTEXT))) :
             to \in {Undefined, Str(<<>>), Num(<<"7">>)}}
    \cup {SdpPayload(Str(S2), Undefined, Description(Str(OFFER), Str(SDPTEXT)))}
    \cup {SdpPayload(Str(S2), Str(c), d) :
             d \in {NoDescription,
                    Description(Str(ANSWER), Str(SDPTEXT)),
                    Description(Str(<<"p","r","a","n","s","w","e","r">>), Str(SDPTEXT)),
                    Description(Undefined, Str(SDPTEXT)),
                    Description(Str(OFFER), Str(<<>>)),
                    Description(Str(OFFER), Undefined),
                    Description(Str(OFFER), Num(<<"7">>))}}
    \cup {[t |-> "undefined", to |-> Undefined, sender |-> Undefined,
           description |-> NoDescription]}

IcePayload(to, sender, candidate) ==
    [t |-> "object", to |-> to, sender |-> sender, candidate |-> candidate]

CandidateVals ==
    {Null, Undefined, Obj(<<"c">>), Str(<<"c">>), Str(<<>>), Num(<<"0">>), Num(<<"7">>)}

IceData(c) ==
    {IcePayload(to, Str(c), cand) : to \in {Str(S1), Str(S2)}, cand \in CandidateVals}
    \cup {IcePayload(Undefined, Str(c), Null), IcePayload(Str(<<>>), Str(c), Null),
          IcePayload(Str(S2), Undefined, Null), IcePayload(Str(S2), Num(<<"7">>), Null)}

NewUserStartData(c) ==
    {[t |-> "object", to |-> to, sender |-> snd] :
        to \in {Str(S1), Str(S2), Undefined}, snd \in {Str(c), Undefined}}

RelayBudget == SumSeen(DOMAIN windowLog) < MaxRelayEvents

NextRelay ==
    \/ /\ \E c \in RelayConns : Connect(c)
       /\ Tracked
    \/ /\ \E c \in RelayConns : Disconnect(c)
       /\ Tracked
    \/ /\ \E c \in RelayConns : \E data \in RelaySubscribeData(c) :
             RelayBudget /\ Subscribe(c, data)
       /\ Tracked
    \/ /\ \E c \in RelayConns : \E data \in LeaveRoomData(c) : LeaveRoom(c, data)
       /\ Tracked
    \/ /\ \E c \in RelayConns : \E data \in NewUserStartData(c) :
             RelayBudget /\ NewUserStart(c, data)
       /\ Tracked
    \/ /\ \E c \in RelayConns : \E data \in SdpData(c) : RelayBudget /\ Sdp(c, data)
       /\ Tracked
    \/ /\ \E c \in RelayConns : \E data \in IceData(c) :
             RelayBudget /\ IceCandidates(c, data)
       /\ Tracked

SpecRelay == Init /\ [][NextRelay]_vars

-----------------------------------------------------------------------------
(* Chat validation: two sockets of one room, MaxEvents rate-limited events *)

ChatSubscribeData(c) == {[t |-> "object", room |-> Str(R1), socketId |-> Str(c)]}

ChatPayload(room, sender, msg) ==
    [t |-> "object", room |-> room, sender |-> sender, msg |-> msg]

MsgVals ==
    {Undefined, Num(<<"7">>), Str(<<>>), Str(HI), Str(SCRIPT),
     Str(<<"x","<","S","c","R","i","P","t">>),
     Str(<<"J","a","v","a","S","c","r","i","p","t",":","x">>),
     Str(<<"a"," ","O","N","c","l","i","c","k","=","1">>),
     Str(<<"o","n","=">>),
     Str(<<"o","n"," ","x","=">>),
     Str(Repeat("a", MAX_MSG_LENGTH)), Str(Repeat("a", MAX_MSG_LENGTH + 1))}

ValidationChatData(c) ==
    {ChatPayload(Str(R1), Str(c), m) : m \in MsgVals}
    \cup {ChatPayload(r, Str(c), Str(HI)) : r \in {Undefined, Str(<<>>), Num(<<"7">>)}}
    \cup {ChatPayload(Str(R1), snd, Str(HI)) : snd \in {Undefined, Str(<<>>), Num(<<"7">>)}}
    \cup {[t |-> "undefined", room |-> Undefined, sender |-> Undefined, msg |-> Undefined]}

NextChat ==
    \/ /\ \E c \in RelayConns : Connect(c)
       /\ Untracked
    \/ /\ \E c \in RelayConns : \E data \in ChatSubscribeData(c) :
             Budget /\ Subscribe(c, data)
       /\ Untracked
    \/ /\ \E c \in RelayConns : \E data \in ValidationChatData(c) : Budget /\ Chat(c, data)
       /\ Untracked

SpecChat == Init /\ [][NextChat]_vars

-----------------------------------------------------------------------------
(* Start-up: the process is started with any of a range of settings of     *)
(* MAX_ROOM_SIZE; it exits when validateConfig throws, and serves three    *)
(* sockets that subscribe to one room otherwise.                           *)

ConfigEnvSettings ==
    {Unset}
    \cup {Setting(NumberToString(n)) : n \in (-EnvMargin)..(MAX_ROOM_SIZE_LIMIT + EnvMargin)}
    \cup {Setting(s) : s \in {<<>>, <<"a","b","c">>, <<"2",".","5">>, <<"1","2","p","x">>,
                               <<" ","7">>, <<"+","5">>, <<"0","0","7">>, <<"0","x","1","A">>,
                               <<"1","e","3">>, <<"5","1",".","0">>}}

InitConfig ==
    /\ \E env \in ConfigEnvSettings :
          /\ config = LoadConfig(env)
          /\ last = [NoEvent EXCEPT
                        !.event = "start",
                        !.data = [t |-> "env", set |-> env.set, v |-> env.v],
                        !.outcome = IF validateConfig(config) THEN "ok" ELSE "exit"]
    /\ connected = {}
    /\ closed = {}
    /\ rooms = << >>
    /\ rateLimitMap = << >>
    /\ now = 0
    /\ windowLog = << >>
    /\ aliases = << >>
    /\ journal = << >>
    /\ sent = {}

\* validateConfig did not throw: the process did not exit at start-up
Started == validateConfig(config)

NextConfig ==
    \/ /\ Started
       /\ \E c \in Conns : Connect(c)
       /\ Untracked
    \/ /\ Started
       /\ \E c \in Conns : \E data \in ChatSubscribeData(c) : Budget /\ Subscribe(c, data)
       /\ Untracked

SpecConfig == InitConfig /\ [][NextConfig]_vars

-----------------------------------------------------------------------------
(* Faults: two sockets of one room, MaxEvents rate-limited events in all,  *)
(* any of which may meet a fault                                           *)

FaultChatData(c) == {ChatPayload(Str(R1), Str(c), Str(HI))}

FaultSdpData(c) ==
    {SdpPayload(Str(S2), Str(c), Description(Str(OFFER), Str(SDPTEXT)))}

FaultIceData(c) == {IcePayload(Str(S2), Str(c), Null)}

FaultNewUserStartData(c) == {[t |-> "object", to |-> Str(S2), sender |-> Str(c)]}

FaultLeaveRoomData(c) == {[t |-> "object", room |-> Str(R1)]}

NextFault ==
    \/ /\ \E c \in RelayConns : Connect(c)
       /\ Untracked
    \/ /\ \E c \in RelayConns : Disconnect(c)
       /\ Untracked
    \/ /\ \E c \in RelayConns : \E data \in ChatSubscribeData(c) :
             Budget /\ Subscribe(c, data)
       /\ Untracked
    \/ /\ \E c \in RelayConns : \E data \in ChatSubscribeData(c) :
             \E point \in SubscribeFaultPoints :
                Budget /\ SubscribeFault(c, data, point)
       /\ Untracked
    \/ /\ \E c \in RelayConns : \E data \in FaultNewUserStartData(c) :
             Budget /\ NewUserStartFault(c, data)
       /\ Untracked
    \/ /\ \E c \in RelayConns : \E data \in FaultSdpData(c) :
             Budget /\ SdpFault(c, data)
       /\ Untracked
    \/ /\ \E c \in RelayConns : \E data \in FaultIceData(c) :
             Budget /\ IceCandidatesFault(c, data)
       /\ Untracked
    \/ /\ \E c \in RelayConns : \E data \in FaultChatData(c) :
             Budget /\ ChatFault(c, data)
       /\ Untracked
    \/ /\ \E c \in RelayConns : \E data \in FaultLeaveRoomData(c) :
             \E left \in BOOLEAN : LeaveRoomFault(c, data, left)
       /\ Untracked
    \/ /\ \E c \in RelayConns : DisconnectFault(c)
       /\ Untracked

SpecFault == Init /\ [][NextFault]_vars

-----------------------------------------------------------------------------
(* Properties of the rate limiter, over SpecBurst *)

RateLimitedEvents == {"subscribe", "newUserStart", "sdp", "ice candidates", "chat"}

LastLimited == last.outcome = "rateLimited"

\* C4: within one window (from the event that opens it until its reset time,
\* RATE_LIMIT_WINDOW later) an event is rejected exactly when
\* RATE_LIMIT_MAX_EVENTS events of its key came before it in the window, so
\* the first 10 are admitted and the 11th and later are rejected; the first
\* event of a key is admitted and leaves a window of count 1 that resets at
\* now + RATE_LIMIT_WINDOW.
C4_WindowAdmitsTen ==
    last.event \in RateLimitedEvents =>
        /\ last.age \in 0..RATE_LIMIT_WINDOW =>
              (LastLimited <=> last.prior >= RATE_LIMIT_MAX_EVENTS)
        /\ last.age = -1 =>
              /\ ~LastLimited
              /\ rateLimitMap[Key(last.conn, last.event)]
                    = [count |-> 1, resetTime |-> now + RATE_LIMIT_WINDOW]

\* C4 witness: the 11th event of a window, at the window's last millisecond,
\* has been rejected
C4_Witness ==
    /\ last.event \in RateLimitedEvents
    /\ last.age = RATE_LIMIT_WINDOW
    /\ last.prior = RATE_LIMIT_MAX_EVENTS
    /\ LastLimited

\* C5 as stated: an event that arrives RATE_LIMIT_WINDOW or more after the
\* window started is admitted whatever the window's count
C5_AdmittedFromWindowLength ==
    (last.event \in RateLimitedEvents /\ last.age >= RATE_LIMIT_WINDOW) => ~LastLimited

\* C5 amended: an event that arrives more than RATE_LIMIT_WINDOW after the
\* window started is admitted whatever the window's count, and opens a new
\* window of count 1
C5_AdmittedAfterWindow ==
    (last.event \in RateLimitedEvents /\ last.age > RATE_LIMIT_WINDOW) =>
        /\ ~LastLimited
        /\ rateLimitMap[Key(last.conn, last.event)]
              = [count |-> 1, resetTime |-> now + RATE_LIMIT_WINDOW]

\* C5 witness: an event is admitted after a window in which 10 events had
\* been admitted and more had been rejected
C5_Witness ==
    /\ last.event \in RateLimitedEvents
    /\ last.age > RATE_LIMIT_WINDOW
    /\ last.prior > RATE_LIMIT_MAX_EVENTS
    /\ ~LastLimited

-----------------------------------------------------------------------------
(* Properties of rooms and broadcasts, over Spec *)

\* C1 as stated: every room of the registry, whether joined through the room
\* field of a subscribe or as the room named by a participant id, has at
\* most MAX_ROOM_SIZE members
C1_RoomSizeBound ==
    \A r \in DOMAIN rooms : Cardinality(rooms[r]) <= config.MAX_ROOM_SIZE

\* C2: a subscribe to a room that has MAX_ROOM_SIZE members (or more) is
\* answered by one error event to the caller and nothing else, and leaves the
\* members of every room as they were
C2_FullRoomRejected ==
    [][(/\ last'.event = "subscribe"
        /\ last'.data.room.t = "string"
        /\ getRoomSize(rooms, last'.data.room.v) >= config.MAX_ROOM_SIZE)
       => (/\ rooms' = rooms
           /\ \E m \in sent' : sent' = {m} /\ m.to = last'.conn /\ m.event = "error")]_vars

\* C2 witness: a valid, admitted subscribe has been refused because its room
\* holds exactly MAX_ROOM_SIZE members
C2_Witness ==
    /\ last.event = "subscribe"
    /\ last.outcome = "roomFull"
    /\ getRoomSize(rooms, last.data.room.v) = config.MAX_ROOM_SIZE

RoomBroadcasts == {"chat", "new user", "userLeft"}

\* C3: no chat, new user or userLeft message of a step is addressed to the
\* connection whose event the step handled
C3_NoSelfBroadcast ==
    \A m \in sent : m.event \in RoomBroadcasts => m.to # last.conn

\* C3 witness: a member of a room has sent a chat to it and another member
\* received it
C3_Witness ==
    /\ last.event = "chat"
    /\ last.conn \in Members(rooms, last.data.room.v)
    /\ \E m \in sent : m.event = "chat"

KeysOf(c) == {Key(c, event) : event \in RateLimitedEvents}

\* C6: once a connection has disconnected, the rate-limit map holds no key of
\* it and no room has it as a member
C6_DisconnectCleanup ==
    \A c \in closed :
        /\ DOMAIN rateLimitMap \cap KeysOf(c) = {}
        /\ \A r \in DOMAIN rooms : c \notin rooms[r]

\* C6 witness: a connection that had windows and was a member of a room other
\* than its own has just disconnected
C6_Witness ==
    /\ last.event = "disconnect"
    /\ last.data.windows # {}
    /\ last.data.rooms \ {last.conn} # {}

\* C9: when a subscribe succeeds, the messages of the step are exactly one
\* new user event, carrying the participant id of the payload, for each
\* connection that was a member of the room before and is not the caller;
\* the caller receives nothing
C9_NewUserToEarlierMembers ==
    [][(last'.event = "subscribe" /\ last'.outcome = "ok")
       => (/\ \A m \in sent' : m.to # last'.conn
           /\ {m.to : m \in sent'} = Members(rooms, last'.data.room.v) \ {last'.conn}
           /\ \A m \in sent' :
                 /\ m.event = "new user"
                 /\ m.body.socketId = last'.data.socketId
           /\ \A m1, m2 \in sent' : m1.to = m2.to => m1 = m2)]_vars

\* C9 witness: a subscribe with a participant id other than the socket id has
\* succeeded in a room that had a member
C9_Witness ==
    /\ last.event = "subscribe"
    /\ last.outcome = "ok"
    /\ last.data.socketId # Str(last.conn)
    /\ sent # {}

-----------------------------------------------------------------------------
(* Properties of the signaling relay, over SpecRelay *)

NonEmptyString(x) == x.t = "string" /\ x.v # <<>>

\* C7: every message of an admitted sdp event that passed validation goes to
\* a member of the room named by `to`, carries the description and the sender
\* of the payload unchanged, and has no field besides these and timestamp
C7_SdpForwardedVerbatim ==
    (last.event = "sdp" /\ last.outcome = "ok") =>
        /\ {m.to : m \in sent} = Members(rooms, last.data.to.v) \ {last.conn}
        /\ \A m \in sent :
              /\ m.event = "sdp"
              /\ DOMAIN m.body = {"description", "sender", "timestamp"}
              /\ m.body.description = last.data.description
              /\ m.body.sender = last.data.sender

\* C7 witness: an sdp event whose sender differs from the socket id has been
\* delivered
C7_Witness ==
    /\ last.event = "sdp"
    /\ last.outcome = "ok"
    /\ last.data.sender # Str(last.conn)
    /\ sent # {}

\* C8: an admitted ice candidates event with non-empty strings to and sender
\* and a null candidate is forwarded to the members of `to` with candidate
\* null; one whose candidate is missing or neither null nor an object is
\* rejected and nothing is sent
C8_NullCandidateForwarded ==
    (last.event = "ice candidates" /\ last.outcome # "rateLimited") =>
        /\ (/\ NonEmptyString(last.data.to)
            /\ NonEmptyString(last.data.sender)
            /\ last.data.candidate = Null)
           => /\ last.outcome = "ok"
              /\ {m.to : m \in sent} = Members(rooms, last.data.to.v) \ {last.conn}
              /\ \A m \in sent : m.event = "ice candidates" /\ m.body.candidate = Null
        /\ (last.data.t = "object" /\ last.data.candidate.t \notin {"null", "object"})
           => last.outcome = "invalid" /\ sent = {}

\* C8 witness: a null candidate has been delivered
C8_Witness ==
    /\ last.event = "ice candidates"
    /\ last.data.candidate = Null
    /\ \E m \in sent : m.body.candidate = Null

-----------------------------------------------------------------------------
(* Properties of chat validation, over SpecChat *)

\* the payloads C10 names: room or sender missing, body empty, longer than
\* MAX_MSG_LENGTH or matching an injection pattern
ChatRejectable(data) ==
    \/ data.t # "object"
    \/ ~NonEmptyString(data.room)
    \/ ~NonEmptyString(data.sender)
    \/ data.msg.t # "string"
    \/ Len(data.msg.v) = 0
    \/ Len(data.msg.v) > MAX_MSG_LENGTH
    \/ Includes(ToLower(data.msg.v), <<"<","s","c","r","i","p","t">>)
    \/ Includes(ToLower(data.msg.v), <<"j","a","v","a","s","c","r","i","p","t",":">>)
    \/ \E i \in 1..(Len(data.msg.v) - 1) :
          /\ ToLower(SubSeq(data.msg.v, i, i + 1)) = <<"o", "n">>
          /\ \E j \in DOMAIN data.msg.v :
                /\ i + 2 < j
                /\ data.msg.v[j] = "="
                /\ \A k \in (i + 2)..(j - 1) : data.msg.v[k] \in WordChars

\* C10: a chat event whose payload fails validation is broadcast to nobody,
\* and its sender receives an error event
C10_InvalidChatNotBroadcast ==
    (last.event = "chat" /\ ChatRejectable(last.data)) =>
        \E m \in sent : sent = {m} /\ m.event = "error" /\ m.to = last.conn

\* C10 witness: a member of a room with another member has sent the script
\* body to it and nothing but the error was sent
C10_Witness ==
    /\ last.event = "chat"
    /\ last.data.msg = Str(SCRIPT)
    /\ last.outcome = "invalid"
    /\ Cardinality(Members(rooms, last.data.room.v)) > 1
    /\ last.conn \in Members(rooms, last.data.room.v)

-----------------------------------------------------------------------------
(* Properties of joining again, over Spec *)

\* C11: a subscribe to a room by a connection that is already a member of
\* it leaves the members of that room as they were, whatever the number of
\* members and whether the subscribe is accepted or refused
C11_RejoinKeepsMembers ==
    [][(/\ last'.event = "subscribe"
        /\ last'.data.room.t = "string"
        /\ last'.conn \in Members(rooms, last'.data.room.v))
       => Members(rooms', last'.data.room.v) = Members(rooms, last'.data.room.v)]_vars

\* C11 witness: a member of a room has subscribed to it again and the
\* subscribe was accepted
C11_Witness ==
    /\ last.event = "subscribe"
    /\ last.outcome = "ok"
    /\ last.member
    /\ last.data.room = Str(R1)

\* the rate limiter admits the event of the last step: it is not the 11th or
\* a later event of its key within one window
LastAdmitted == ~(last.age \in 0..RATE_LIMIT_WINDOW /\ last.prior >= RATE_LIMIT_MAX_EVENTS)

\* C12 as stated: a valid, admitted subscribe to a room by a connection that
\* is already a member of it succeeds and sends the caller no error event,
\* whatever the number of members, MAX_ROOM_SIZE included
C12_RejoinSucceeds ==
    (/\ last.event = "subscribe"
     /\ last.member
     /\ validateRoomData(last.data)
     /\ LastAdmitted)
    => /\ last.outcome = "ok"
       /\ \A m \in sent : ~(m.to = last.conn /\ m.event = "error")

-----------------------------------------------------------------------------
(* Order of delivery within a room, over Spec *)

RoomEvents == {"subscribe", "chat", "leaveRoom"}

\* C13: delivery follows the order in which the events are handled.  A
\* valid, admitted chat reaches every connection that is a member of its room
\* when it is handled, the sender excepted; in particular the connection
\* whose subscribe to the room was handled just before receives it.  No room
\* broadcast reaches a connection that is not a member of the room when the
\* event is handled; in particular the connection whose leaveRoom for the
\* room was handled just before receives none.
C13_DeliveryFollowsOrder ==
    [][/\ (last'.event = "chat" /\ validateChatData(last'.data) /\ LastAdmitted')
          => \A a \in Members(rooms, last'.data.room.v) \ {last'.conn} :
                \E m \in sent' :
                    m.to = a /\ m.event = "chat" /\ m.body.msg = last'.data.msg
       /\ (/\ last.event = "subscribe" /\ last.outcome = "ok"
           /\ last'.event = "chat" /\ validateChatData(last'.data) /\ LastAdmitted'
           /\ last'.data.room = last.data.room
           /\ last'.conn # last.conn)
          => \E m \in sent' : m.to = last.conn /\ m.event = "chat"
       /\ last'.event \in RoomEvents
          => \A m \in sent' :
                m.event \in RoomBroadcasts => m.to \in Members(rooms, last'.data.room.v)
       /\ (/\ last.event = "leaveRoom" /\ last.outcome = "ok"
           /\ last'.event \in RoomEvents
           /\ last'.data.room = last.data.room)
          => \A m \in sent' : m.event \in RoomBroadcasts => m.to # last.conn]_vars

\* C13 witness: a chat to a room has reached a member of it while a
\* connected socket outside the room received nothing
C13_Witness ==
    /\ last.event = "chat"
    /\ last.data.room = Str(R1)
    /\ \E m \in sent : m.event = "chat" /\ m.to \in Members(rooms, R1)
    /\ \E o \in connected \ Members(rooms, R1) : o # last.conn

-----------------------------------------------------------------------------
(* Properties of rejected events, over SpecFlood *)

\* the payload of an event passes the check its handler makes
PayloadValid(event, data) ==
    CASE event = "subscribe" -> validateRoomData(data)
      [] event = "newUserStart" -> Truthy(data) /\ Truthy(data.to) /\ Truthy(data.sender)
      [] event = "sdp" -> validateSDPData(data)
      [] event = "ice candidates" -> validateICEData(data)
      [] event = "chat" -> validateChatData(data)

\* the event of the last step was refused by the rate limiter or by validation
LastRejected ==
    /\ last.event \in RateLimitedEvents
    /\ ~LastAdmitted \/ ~PayloadValid(last.event, last.data)

FireAndForget == {"newUserStart", "sdp", "ice candidates"}

\* C14: an event refused by the rate limiter or by validation sends nothing
\* at all when it is a newUserStart, sdp or ice candidates event, and sends
\* one error event to the caller and nothing else when it is a subscribe or
\* a chat
C14_RejectionSurfacedByType ==
    LastRejected =>
        IF last.event \in FireAndForget
        THEN sent = {}
        ELSE \E m \in sent : sent = {m} /\ m.event = "error" /\ m.to = last.conn

\* C14 witness: a well-formed sdp event addressed to a connected socket has
\* been dropped by the rate limiter
C14_Witness ==
    /\ last.event = "sdp"
    /\ ~LastAdmitted
    /\ validateSDPData(last.data)
    /\ Members(rooms, last.data.to.v) \ {last.conn} # {}
    /\ sent = {}

\* C15: a subscribe that is refused, by the rate limiter, by validation or
\* because its room holds MAX_ROOM_SIZE members, sends no event to any
\* connection but the caller and leaves the members of every room as they
\* were
C15_RejectedSubscribeSilent ==
    [][(/\ last'.event = "subscribe"
        /\ \/ ~LastAdmitted'
           \/ ~validateRoomData(last'.data)
           \/ getRoomSize(rooms, last'.data.room.v) >= config.MAX_ROOM_SIZE)
       => (/\ rooms' = rooms
           /\ \A m \in sent' : m.to = last'.conn)]_vars

\* C15 witness: a well-formed subscribe to a room that has another member
\* has been refused by the rate limiter
C15_Witness ==
    /\ last.event = "subscribe"
    /\ ~LastAdmitted
    /\ validateRoomData(last.data)
    /\ Members(rooms, last.data.room.v) \ {last.conn} # {}
    /\ sent # {}

-----------------------------------------------------------------------------
(* Properties of faults, over SpecFault *)

\* the rate-limit keys of a socket, with their windows
WindowsOf(map, c) == [k \in DOMAIN map \cap KeysOf(c) |-> map[k]]

\* C16 as stated: a fault raised while any handler runs, the disconnect
\* handler included, is caught inside the handler; the socket whose handler
\* met the fault stays connected unless the event was its disconnect; every
\* other socket stays connected, in the same rooms and with the same
\* rate-limit windows
C16_FaultsContained ==
    [][last'.outcome \in {"fault", "uncaught"}
       => (/\ last'.outcome = "fault"
           /\ last'.event # "disconnect" => last'.conn \in connected'
           /\ \A o \in connected \ {last'.conn} :
                 /\ o \in connected'
                 /\ SocketRooms(rooms', o) = SocketRooms(rooms, o)
                 /\ WindowsOf(rateLimitMap', o) = WindowsOf(rateLimitMap, o))]_vars

-----------------------------------------------------------------------------
(* Properties of disconnection, over Spec *)

\* C17 as stated: when a connection that is a member of a room other than
\* the room of its own id disconnects, every connection that remains a
\* member of that room is sent a userLeft event that carries the id of the
\* connection that left
C17_DisconnectAnnounced ==
    [][last'.event = "disconnect"
       => \A r \in SocketRooms(rooms, last'.conn) \ {last'.conn} :
             \A o \in Members(rooms, r) \ {last'.conn} :
                \E m \in sent' :
                    /\ m.to = o
                    /\ m.event = "userLeft"
                    /\ m.body.socketId = Str(last'.conn)]_vars

-----------------------------------------------------------------------------
(* Properties of the last free place of a room, over Spec *)

\* the subscribe handled by the step is well-formed, admitted by the rate
\* limiter, and comes from a connection outside its room
OutsiderSubscribes ==
    /\ last'.event = "subscribe"
    /\ validateRoomData(last'.data)
    /\ LastAdmitted'
    /\ last'.conn \notin Members(rooms, last'.data.room.v)

\* C18: handlers run one at a time, so of two connections outside a room
\* with MAX_ROOM_SIZE - 1 members that both subscribe to it, the one handled
\* first joins and the one handled second is refused as room full: a
\* subscribe from outside finds the size the subscribes before it left, joins
\* at MAX_ROOM_SIZE - 1 and is refused, with the rooms unchanged, at
\* MAX_ROOM_SIZE; and the subscribe from outside that directly follows the
\* join that filled the room is refused
C18_LastPlaceTakenOnce ==
    [][/\ (OutsiderSubscribes
           /\ Cardinality(Members(rooms, last'.data.room.v)) = config.MAX_ROOM_SIZE - 1)
          => /\ last'.outcome = "ok"
             /\ Members(rooms', last'.data.room.v)
                   = Members(rooms, last'.data.room.v) \cup {last'.conn}
       /\ (OutsiderSubscribes
           /\ Cardinality(Members(rooms, last'.data.room.v)) = config.MAX_ROOM_SIZE)
          => /\ last'.outcome = "roomFull"
             /\ rooms' = rooms
       /\ (/\ last.event = "subscribe" /\ last.outcome = "ok" /\ ~last.member
           /\ Cardinality(Members(rooms, last.data.room.v)) = config.MAX_ROOM_SIZE
           /\ OutsiderSubscribes
           /\ last'.data.room = last.data.room
           /\ last'.conn # last.conn)
          => /\ last'.outcome = "roomFull"
             /\ \E m \in sent' : sent' = {m} /\ m.event = "error" /\ m.to = last'.conn]_vars

\* C18 witness: a connection outside a named room has been refused because
\* two others took its places by subscribing
C18_Witness ==
    /\ last.event = "subscribe"
    /\ last.outcome = "roomFull"
    /\ ~last.member
    /\ last.data.room = Str(R1)
    /\ Cardinality(Members(rooms, R1)) = config.MAX_ROOM_SIZE

-----------------------------------------------------------------------------
(* Properties of participant ids, over SpecRelay *)

\* the last step handled a well-formed, admitted signaling event addressed
\* to a participant id
LastSignalTo(id) ==
    /\ last.event \in FireAndForget
    /\ PayloadValid(last.event, last.data)
    /\ LastAdmitted
    /\ last.data.to = Str(id)

Delivered(c) == \E m \in sent : m.to = c /\ m.event = last.event

\* C19 as stated: from the subscribe of a connection that succeeded with a
\* participant id until the connection disconnects, every well-formed,
\* admitted newUserStart, sdp or ice candidates event that another
\* connection addresses to that id is delivered to the connection
C19_ReachableUntilDisconnect ==
    \A k \in DOMAIN aliases :
        (LastSignalTo(k[2]) /\ last.conn # k[1]) => Delivered(k[1])

\* C19 amended: from the subscribe of a connection that succeeded with a
\* participant id until the connection disconnects or sends leaveRoom for
\* the room named by that id, every well-formed, admitted newUserStart, sdp
\* or ice candidates event that another connection addresses to that id is
\* delivered to the connection
C19_ReachableWhileHeld ==
    \A k \in DOMAIN aliases :
        (aliases[k].held /\ LastSignalTo(k[2]) /\ last.conn # k[1]) => Delivered(k[1])

\* C19 witness: a signaling event has been delivered to a connection under
\* a participant id other than its socket id, after the connection left the
\* room it had subscribed to
C19_Witness ==
    \E k \in DOMAIN aliases :
        /\ aliases[k].held
        /\ k[2] # k[1]
        /\ aliases[k].room # k[2]
        /\ k[1] \notin Members(rooms, aliases[k].room)
        /\ LastSignalTo(k[2])
        /\ Delivered(k[1])

-----------------------------------------------------------------------------
(* Properties of the configuration, over SpecConfig *)

\* the integers whose decimal form a setting can be
SettingRange == (-EnvMargin - 1)..(MAX_ROOM_SIZE_LIMIT + EnvMargin + 1)

\* the setting is the decimal form of an integer
IsIntegerSetting(s) == \E n \in SettingRange : NumberToString(n) = s

IntegerOf(s) == CHOOSE n \in SettingRange : NumberToString(n) = s

\* C20 as stated: at start-up a supplied MAX_ROOM_SIZE passes validation
\* exactly when it is an integer from MIN_ROOM_SIZE to MAX_ROOM_SIZE_LIMIT,
\* and the limit in force is then that integer; every supplied integer
\* below 2, 0 included, or above 50 fails validation; without a setting
\* validation passes and the limit is 10
C20_SettingValidated ==
    last.event = "start" =>
        IF ~last.data.set
        THEN last.outcome = "ok" /\ config.MAX_ROOM_SIZE = DEFAULT_MAX_ROOM_SIZE
        ELSE /\ last.outcome = "ok"
                  <=> /\ IsIntegerSetting(last.data.v)
                      /\ IntegerOf(last.data.v) \in MIN_ROOM_SIZE..MAX_ROOM_SIZE_LIMIT
             /\ last.outcome = "ok" => config.MAX_ROOM_SIZE = IntegerOf(last.data.v)

-----------------------------------------------------------------------------
(* Properties of the numbers of events, over SpecLeave *)

\* C21: of the events of one type that one socket sends within one rate-limit
\* window, leaveRoom included, at most RATE_LIMIT_MAX_EVENTS change the
\* membership of a room or send a message other than an error reply
C21_EffectsBoundedPerWindow ==
    \A k \in DOMAIN journal :
        SumOver(journal[k]) <= RATE_LIMIT_MAX_EVENTS

-----------------------------------------------------------------------------
(* Properties of the dispatcher's choice of recipients, over SpecRelay *)

SignalEvents == {"newUserStart", "sdp", "ice candidates"}

LastSignalOk == last.event \in SignalEvents /\ last.outcome = "ok"

\* C22 as stated: a newUserStart, sdp or ice candidates event addressed to
\* participant id P is delivered to every socket reachable under P, the
\* sending socket included when it is reachable under P
C22_DirectSendIncludesSender ==
    LastSignalOk => {m.to : m \in sent} = Members(rooms, last.data.to.v)

\* C22: a newUserStart, sdp or ice candidates event addressed to participant
\* id P is delivered to every socket reachable under P except the sending
\* socket, which receives nothing, also when it is itself reachable under P
C22_DirectSendExcludesSender ==
    LastSignalOk =>
        /\ {m.to : m \in sent} = Members(rooms, last.data.to.v) \ {last.conn}
        /\ \A m \in sent : m.to # last.conn

\* C22 witness: a socket has sent a signaling event to an id under which it
\* is itself reachable, and another socket received it
C22_Witness ==
    /\ LastSignalOk
    /\ last.conn \in Members(rooms, last.data.to.v)
    /\ \E m \in sent : m.to # last.conn

\* the sockets that, when the socket of the last step closed, shared with it
\* the room named `id` and no other room
SharedOnly(id) ==
    {d \in Members(rooms, id) :
        \A r \in last.data.rooms \ {id} : d \notin Members(rooms, r)}

-----------------------------------------------------------------------------
(* Properties of the windows of the rate limiter, over SpecBurst *)

\* C24: after every step each window has a count from 1 to
\* RATE_LIMIT_MAX_EVENTS, and a rejected event (its window is full and has not
\* expired) leaves the whole map, so its window's count and reset time, as
\* they were
C24_RejectionKeepsWindow ==
    [][/\ \A k \in DOMAIN rateLimitMap' :
             rateLimitMap'[k].count \in 1..RATE_LIMIT_MAX_EVENTS
       /\ last'.outcome = "rateLimited" =>
             /\ Key(last'.conn, last'.event) \in DOMAIN rateLimitMap
             /\ rateLimitMap[Key(last'.conn, last'.event)].count = RATE_LIMIT_MAX_EVENTS
             /\ now' <= rateLimitMap[Key(last'.conn, last'.event)].resetTime
             /\ rateLimitMap' = rateLimitMap]_vars

\* C24 witness: an event has been rejected later than the opening of its
\* window, and the window still resets as it did
C24_Witness ==
    /\ LastLimited
    /\ last.age > 0
    /\ rateLimitMap[Key(last.conn, last.event)].count = RATE_LIMIT_MAX_EVENTS
    /\ rateLimitMap[Key(last.conn, last.event)].resetTime < now + RATE_LIMIT_WINDOW

-----------------------------------------------------------------------------
(* Properties of the sweep of a closing socket, over SpecSweep *)

-----------------------------------------------------------------------------
(* Properties of the keys of the rate limiter, over SpecKeys *)

\* C26: the rate limiter's decision on an event creates or changes the
\* window of that event's socket and type and no other window, and an event
\* is rejected only when RATE_LIMIT_MAX_EVENTS events of its own socket and
\* type came before it in the window, whatever the other windows hold
C26_WindowsIndependent ==
    [][last'.event \in RateLimitedEvents =>
          /\ \A k \in DOMAIN rateLimitMap :
                \/ k \in DOMAIN rateLimitMap' /\ rateLimitMap'[k] = rateLimitMap[k]
                \/ k = last'.conn \o <<":", last'.event>>
          /\ DOMAIN rateLimitMap' \ DOMAIN rateLimitMap
                \subseteq {last'.conn \o <<":", last'.event>>}
          /\ last'.outcome = "rateLimited" => last'.prior >= RATE_LIMIT_MAX_EVENTS]_vars

\* C26 witness: an event has been admitted while the window of another event
\* type of the same socket and a window of another socket were full and had
\* rejected events
C26_Witness ==
    /\ last.event \in RateLimitedEvents
    /\ ~LastLimited
    /\ \E k \in DOMAIN windowLog :
          k[1] = last.conn /\ k[2] # last.event /\ windowLog[k].seen > RATE_LIMIT_MAX_EVENTS
    /\ \E k \in DOMAIN windowLog :
          k[1] # last.conn /\ windowLog[k].seen > RATE_LIMIT_MAX_EVENTS

-----------------------------------------------------------------------------
(* Properties of the admissions over time, over SpecSlide *)

\* C27 as stated: of the events of one socket and type, at most
\* RATE_LIMIT_MAX_EVENTS are admitted in any time interval of length
\* RATE_LIMIT_WINDOW, aligned with the start of a window or not
C27_SlidingLimit ==
    \A k \in DOMAIN journal : SumOver(journal[k]) <= RATE_LIMIT_MAX_EVENTS

\* C27 amended: of the events of one socket and type, at most
\* 2 * RATE_LIMIT_MAX_EVENTS - 1 are admitted in any time interval of length
\* RATE_LIMIT_WINDOW (the end of one window and the start of the next), and
\* at most RATE_LIMIT_MAX_EVENTS of them at or after the opening of the
\* current window
C27_FixedWindowLimit ==
    \A k \in DOMAIN journal :
        /\ SumOver(journal[k]) <= 2 * RATE_LIMIT_MAX_EVENTS - 1
        /\ InWindow(k[1], k[2]) =>
              SumOver(Recent(journal[k], windowLog[k].opened + RATE_LIMIT_WINDOW))
                  <= RATE_LIMIT_MAX_EVENTS

\* C27 witness: 19 events of one key have been admitted within less than
\* RATE_LIMIT_WINDOW milliseconds, the last of them just now
C27_Witness ==
    /\ last.event \in RateLimitedEvents
    /\ ~LastLimited
    /\ Count(last.conn, last.event) = 2 * RATE_LIMIT_MAX_EVENTS - 1

-----------------------------------------------------------------------------
(* Properties of the room registry, over Spec *)

\* room names with and without an entry
RoomNames == DOMAIN rooms \cup Conns \cup {R1, <<"r", "2">>}

\* C28: a room has an entry in the registry exactly when it has a member, so
\* the first join creates it and the leave or close of its last member
\* removes it; the size of a room without an entry is 0 and the size of any
\* room is the number of its members
C28_RoomExistsIffNonEmpty ==
    /\ \A r \in DOMAIN rooms : rooms[r] # {}
    /\ \A r \in RoomNames :
          /\ r \notin DOMAIN rooms => getRoomSize(rooms, r) = 0
          /\ getRoomSize(rooms, r) = Cardinality(Members(rooms, r))
    /\ (last.event = "subscribe" /\ last.outcome = "ok") =>
          last.data.room.v \in DOMAIN rooms
    /\ last.event = "disconnect" =>
          \A r \in last.data.rooms :
              r \in DOMAIN rooms <=> \E d \in connected : d \in Members(rooms, r)

\* C28 witness: the only member of a room it had subscribed to has left it
\* with leaveRoom and the room has no entry any more
C28_Witness ==
    /\ last.event = "leaveRoom"
    /\ last.member
    /\ last.data.room.v # last.conn
    /\ last.data.room.v \notin DOMAIN rooms
    /\ getRoomSize(rooms, last.data.room.v) = 0

\* C29: a leaveRoom event of a socket for a room takes the socket out of that
\* room and changes no other membership, of the socket or of another socket,
\* and no rate-limit window; a leaveRoom event without a room changes no
\* membership and no window and sends nothing
C29_LeaveRoomFrame ==
    [][last'.event = "leaveRoom" =>
          /\ rateLimitMap' = rateLimitMap
          /\ IF last'.data.t = "object" /\ last'.data.room.t = "string"
             THEN /\ last'.conn \notin Members(rooms', last'.data.room.v)
                  /\ \A r \in DOMAIN rooms \cup DOMAIN rooms' : \A d \in Conns :
                        (r # last'.data.room.v \/ d # last'.conn) =>
                            (d \in Members(rooms', r) <=> d \in Members(rooms, r))
             ELSE rooms' = rooms /\ sent' = {}]_vars

\* C29 witness: a socket has left a room it had subscribed to while it stays
\* in the room of its participant id, other sockets are in rooms and windows
\* are open
C29_Witness ==
    /\ last.event = "leaveRoom"
    /\ last.member
    /\ last.data.room.v # last.conn
    /\ \E r \in DOMAIN rooms : r # last.conn /\ last.conn \in rooms[r]
    /\ \E r \in DOMAIN rooms : \E d \in rooms[r] : d # last.conn
    /\ rateLimitMap # << >>

\* a leaveRoom event that is an object without a room has been handled while
\* its socket was in a room beside its own
C29_NoRoomHandled ==
    /\ last.event = "leaveRoom"
    /\ last.data.t = "object"
    /\ last.data.room.t = "undefined"
    /\ SocketRooms(rooms, last.conn) \ {last.conn} # {}

\* C30: a userLeft message goes to the members of a room only if the socket
\* it names was a member of that room just before the leaveRoom event or the
\* close that sent it
C30_UserLeftOnlyForMembers ==
    [][\A m \in sent' :
          m.event = "userLeft" =>
              \E r \in DOMAIN rooms : last'.conn \in rooms[r] /\ m.to \in rooms[r]
                                       /\ (last'.event = "leaveRoom" => r = last'.data.room.v)]_vars

-----------------------------------------------------------------------------
(* Properties of who may send to a room, over Spec *)

\* C31: a chat message is delivered to members of a room only if the socket
\* that sent the chat event was itself a member of that room when the event
\* was handled
C31_ChatOnlyFromMembers ==
    (last.event = "chat" /\ \E m \in sent : m.event = "chat") => last.member

-----------------------------------------------------------------------------
(* Properties of who receives a direct message, over SpecRelay *)

\* C32: a newUserStart, sdp or ice candidates message addressed to
\* participant id P is delivered only to sockets that subscribed with
\* socketId P; a socket that entered the room named P through the room field
\* of a subscribe, or never subscribed with P, does not receive it
C32_DirectOnlyToRegistered ==
    LastSignalOk =>
        \A m \in sent : <<m.to, last.data.to.v>> \in DOMAIN aliases

-----------------------------------------------------------------------------
(* Properties of the announcement of a subscribe, over SpecConfig *)

\* C33: a new user message is sent to a room only when the subscribe adds
\* its socket to the room; a successful subscribe of a socket that was a
\* member of the room already sends no new user message
C33_NoAnnouncementOnRejoin ==
    (last.event = "subscribe" /\ last.outcome = "ok" /\ last.member) =>
        ~\E m \in sent : m.event = "new user"

-----------------------------------------------------------------------------
(* Properties of the order of the checks, over SpecRefuse *)

\* C34: the rate limiter is asked before the payload is looked at, so an
\* event that validation or a full room refuses has taken a place in its
\* window, and after RATE_LIMIT_MAX_EVENTS such events in one window the
\* next event of that socket and type is rejected by the rate limiter, well
\* formed or not
C34_RefusedEventsCount ==
    [][last'.event \in RateLimitedEvents =>
          /\ last'.outcome \in {"invalid", "roomFull"} =>
                rateLimitMap'[Key(last'.conn, last'.event)].count = last'.prior + 1
          /\ Count(last'.conn, last'.event) >= RATE_LIMIT_MAX_EVENTS =>
                /\ last'.outcome = "rateLimited"
                /\ rooms' = rooms
                /\ \A m \in sent' : m.event = "error" /\ m.to = last'.conn]_vars

\* C34 witness: a well-formed chat addressed to a room with a member is the
\* 11th event of its window, the ten before it were all refused by
\* validation, and the rate limiter has rejected it
C34_Witness ==
    /\ last.event = "chat"
    /\ validateChatData(last.data)
    /\ Members(rooms, last.data.room.v) \ {last.conn} # {}
    /\ last.prior = RATE_LIMIT_MAX_EVENTS
    /\ Count(last.conn, "chat") = RATE_LIMIT_MAX_EVENTS
    /\ LastLimited

-----------------------------------------------------------------------------
(* Properties of the two disconnect handlers, over Spec *)

\* the userLeft messages that name the socket of the last step and go to d
UserLeftTo(d) ==
    {m \in sent : m.to = d /\ m.event = "userLeft"
                             /\ m.body.socketId = Str(last.conn)}

====
